---------------------------- MODULE Spec2Model ----------------------------
(***************************************************************************)
(* A model of the contract-generation endpoint (api/generate.js): the      *)
(* in-memory rate limiter checkRateLimit, the request handler, the retry   *)
(* loop of LLMService.generateContract and the text clean-up of            *)
(* ContractTemplateService.validateAndCleanContract.                       *)
(*                                                                         *)
(* Node runs a handler invocation to completion between two awaits, so an  *)
(* action of the model is one such run: from the entry of the handler to   *)
(* the first pending axios.post (or to the response), from the settling of *)
(* an axios.post to the next await, and from the firing of a backoff timer *)
(* to the next await.  Several invocations interleave at these points.     *)
(*                                                                         *)
(* The front end is modelled beside it: the localStorage of one page with  *)
(* its HistoryManager and its Web3Auth, one action per method call.        *)
(*                                                                         *)
(* Times are milliseconds, as Date.now() and setTimeout count them.        *)
(***************************************************************************)
EXTENDS Integers, Sequences, FiniteSets, TLC

VARIABLES
    now,            \* the reading of Date.now()
    rateLimitMap,   \* the module-level Map: identity -> array of timestamps
    env,            \* process.env: LLM_PROVIDER and the provider credential
    req,            \* one record per handler invocation slot
    admissions,     \* history: per identity, the times checkRateLimit said true
                    \* that are still inside the trailing window
    call,           \* one method of ContractTemplateService called on its own:
                    \* the method, its argument and the values it returned
    browser         \* the page of the front end: localStorage, its
                    \* HistoryManager and its Web3Auth

vars == <<now, rateLimitMap, env, req, admissions, call, browser>>

---------------------------------------------------------------------------
(* Bounds of the model. *)

\* The clock is read at multiples of TickMs, up to MaxTicks of them.
MaxTicks == 4
MaxWords == 2
MaxOther == 3
MaxHalfDays == 3
TickMs == 5 * 60 * 1000

\* The handler invocations that may be in progress at the same time.
Slots == {"r1", "r2"}

---------------------------------------------------------------------------
(* Program constants. *)

limit == 10
window == 15 * 60 * 1000
AuthValidMs == 86400000    \* 24 * 60 * 60 * 1000
maxRetries == 3
timeout == 30000
MinRequirementsLength == 10
MaxRequirementsLength == 5000

---------------------------------------------------------------------------
(* JavaScript values that reach the handler: a tag and, for strings, the   *)
(* text.                                                                   *)

Undefined == [type |-> "undefined", str |-> ""]
Null == [type |-> "object", str |-> ""]
Num(digits) == [type |-> "number", str |-> digits]
Str(s) == [type |-> "string", str |-> s]

\* ToBoolean: undefined, null, 0 and "" are falsy.
Truthy(v) ==
    CASE v.type = "undefined" -> FALSE
      [] v.type = "object" -> FALSE
      [] v.type = "number" -> v.str # "0"
      [] v.type = "string" -> v.str # ""
      [] OTHER -> TRUE

\* a || b
OrElse(a, b) == IF Truthy(a) THEN a ELSE b

---------------------------------------------------------------------------
(* Strings.  TLC treats a string as the sequence of its characters for     *)
(* Len, SubSeq and \o.  The operators below avoid recursion over the       *)
(* characters: they work on sets of positions.                             *)

Min(S) == CHOOSE i \in S : \A j \in S : i <= j
Max(S) == CHOOSE i \in S : \A j \in S : j <= i

CharAt(s, i) == SubSeq(s, i, i)

\* String.prototype.startsWith
StartsWith(s, k) == Len(k) <= Len(s) /\ SubSeq(s, 1, Len(k)) = k

\* String.prototype.endsWith
EndsWith(s, k) == Len(k) <= Len(s) /\ SubSeq(s, Len(s) - Len(k) + 1, Len(s)) = k

OccursAt(s, k, i) == SubSeq(s, i, i + Len(k) - 1) = k

\* The least index >= from at which k occurs in s, or 0 (indexOf, 1-based).
IndexFrom(s, k, from) ==
    LET hits == {i \in from..(Len(s) - Len(k) + 1) : OccursAt(s, k, i)} IN
    IF hits = {} THEN 0 ELSE Min(hits)

\* String.prototype.includes
Includes(s, k) == \E i \in 1..(Len(s) - Len(k) + 1) : OccursAt(s, k, i)

\* k repeated n times.
RECURSIVE Repeat(_, _)
Repeat(k, n) ==
    IF n = 0 THEN ""
    ELSE IF n % 2 = 0 THEN LET h == Repeat(k, n \div 2) IN h \o h
    ELSE k \o Repeat(k, n - 1)

\* parts[lo] \o ... \o parts[hi]
RECURSIVE Concat(_, _, _)
Concat(parts, lo, hi) ==
    IF lo > hi THEN ""
    ELSE IF lo = hi THEN parts[lo]
    ELSE LET mid == (lo + hi) \div 2 IN Concat(parts, lo, mid) \o Concat(parts, mid + 1, hi)

\* The characters of s at the positions in keep, in order.
KeepChars(s, keep) ==
    Concat([i \in 1..Len(s) |-> IF i \in keep THEN CharAt(s, i) ELSE ""], 1, Len(s))

Upper == "ABCDEFGHIJKLMNOPQRSTUVWXYZ"
Lower == "abcdefghijklmnopqrstuvwxyz"
Digits == "0123456789"

CharsOf(s) == {CharAt(s, i) : i \in 1..Len(s)}
UpperChars == CharsOf(Upper)
WordChars == CharsOf(Upper) \cup CharsOf(Lower) \cup CharsOf(Digits) \cup {"_"}
SpaceChars == {" ", "\t", "\n", "\r"}

LowerChar(c) ==
    IF c \in UpperChars THEN CharAt(Lower, IndexFrom(Upper, c, 1)) ELSE c

\* String.prototype.toLowerCase
toLowerCase(s) ==
    IF \A i \in 1..Len(s) : CharAt(s, i) \notin UpperChars THEN s
    ELSE Concat([i \in 1..Len(s) |-> LowerChar(CharAt(s, i))], 1, Len(s))

IsSpace(c) == c \in SpaceChars
IsDigit(c) == c \in CharsOf(Digits)
\* \w of a regular expression
IsWord(c) == c \in WordChars

NonSpaces(s) == {i \in 1..Len(s) : ~IsSpace(CharAt(s, i))}

\* String.prototype.trimStart
TrimStart(s) ==
    IF NonSpaces(s) = {} THEN "" ELSE SubSeq(s, Min(NonSpaces(s)), Len(s))

\* String.prototype.trim
Trim(s) ==
    IF NonSpaces(s) = {} THEN "" ELSE SubSeq(s, Min(NonSpaces(s)), Max(NonSpaces(s)))

\* The positions of the character c in s, and the j-th of them.
Positions(s, c) == {i \in 1..Len(s) : CharAt(s, i) = c}
NthOf(P, j) == CHOOSE x \in P : Cardinality({y \in P : y < x}) = j - 1

\* String.prototype.split with a one-character separator: a sequence of strings.
Split(s, sep) ==
    LET P == Positions(s, sep)
        n == Cardinality(P)
        from(j) == IF j = 1 THEN 1 ELSE NthOf(P, j - 1) + 1
        to(j) == IF j = n + 1 THEN Len(s) ELSE NthOf(P, j) - 1
    IN  [j \in 1..(n + 1) |-> SubSeq(s, from(j), to(j))]

\* Array.prototype.join
Join(parts, sep) ==
    LET n == Len(parts) IN
    Concat([i \in 1..(2 * n - 1) |-> IF i % 2 = 1 THEN parts[(i + 1) \div 2] ELSE sep],
           1, 2 * n - 1)

\* The number of occurrences of the character c in s.
CountChar(s, c) == Cardinality(Positions(s, c))

---------------------------------------------------------------------------
(* The rate limiter. *)

\* requests.filter(time => now - time < window)
validRequests(requests, t, win) ==
    LET Recent(time) == t - time < win IN SelectSeq(requests, Recent)

\* checkRateLimit(ip, limit, window) with the Map held in map and Date.now()
\* read as t: the value returned and the Map it leaves behind.  A key the Map
\* does not hold reads as the empty array (rateLimitMap.get(ip) || []).
\* Faulty variants of checkRateLimit, which the properties of the rate
\* limiter must tell from it: one that never prunes, one that compares with
\* > for >=.
checkRateLimitNoPrune(map, ip, t, lim, win) ==
    IF Len(map[ip]) >= lim
    THEN [result |-> FALSE, map |-> map]
    ELSE [result |-> TRUE, map |-> [map EXCEPT ![ip] = Append(@, t)]]

checkRateLimitOffByOne(map, ip, t, lim, win) ==
    LET valid == validRequests(map[ip], t, win) IN
    IF Len(valid) > lim
    THEN [result |-> FALSE, map |-> map]
    ELSE [result |-> TRUE, map |-> [map EXCEPT ![ip] = Append(valid, t)]]

\* One that records the call it rejects.
checkRateLimitRecordsRejected(map, ip, t, lim, win) ==
    LET valid == validRequests(map[ip], t, win) IN
    [result |-> Len(valid) < lim, map |-> [map EXCEPT ![ip] = Append(valid, t)]]

\* One that keeps a single record for all identities.
checkRateLimitSharedRecord(map, ip, t, lim, win) ==
    LET key == CHOOSE k \in DOMAIN map : TRUE
        valid == validRequests(map[key], t, win)
    IN  IF Len(valid) >= lim
        THEN [result |-> FALSE, map |-> map]
        ELSE [result |-> TRUE, map |-> [map EXCEPT ![key] = Append(valid, t)]]

checkRateLimit(map, ip, t, lim, win) ==
    LET valid == validRequests(map[ip], t, win) IN
    IF Len(valid) >= lim
    THEN [result |-> FALSE, map |-> map]
    ELSE [result |-> TRUE, map |-> [map EXCEPT ![ip] = Append(valid, t)]]

---------------------------------------------------------------------------
(* The template service: classification and prompts. *)

\* this.contractTypes, in the order Object.entries walks it.
contractTypes == <<
    [type |-> "erc20", name |-> "ERC-20 Token Contract",
     keywords |-> <<"token", "erc20", "coin", "currency", "payment", "fungible">>],
    [type |-> "erc721", name |-> "ERC-721 NFT Contract",
     keywords |-> <<"nft", "collectible", "art", "unique", "non-fungible", "erc721">>],
    [type |-> "multisig", name |-> "Multi-Signature Wallet",
     keywords |-> <<"multisig", "multi-signature", "wallet", "governance", "voting">>],
    [type |-> "crowdfunding", name |-> "Crowdfunding Contract",
     keywords |-> <<"crowdfunding", "fundraising", "ico", "investment", "raise">>],
    [type |-> "defi", name |-> "DeFi Protocol Contract",
     keywords |-> <<"defi", "lending", "staking", "yield", "liquidity", "farming">>],
    [type |-> "governance", name |-> "DAO Governance Contract",
     keywords |-> <<"dao", "governance", "voting", "proposal", "democracy">>],
    [type |-> "custom", name |-> "Custom Smart Contract",
     keywords |-> <<"custom", "specific", "tailored", "bespoke">>] >>

TypeNames == {contractTypes[i].type : i \in 1..Len(contractTypes)}

AnyKeyword(text, keywords) ==
    \E k \in 1..Len(keywords) : Includes(text, keywords[k])

\* detectContractType: the first type, in declared order, one of whose
\* keywords occurs in the lower-cased text; 'custom' when none does.
RECURSIVE DetectFrom(_, _)
DetectFrom(text, i) ==
    IF i > Len(contractTypes) THEN "custom"
    ELSE IF AnyKeyword(text, contractTypes[i].keywords) THEN contractTypes[i].type
    ELSE DetectFrom(text, i + 1)

\* A detection that keeps looking after a match: the last matching type wins.
RECURSIVE DetectLastFrom(_, _, _)
DetectLastFrom(text, i, found) ==
    IF i > Len(contractTypes) THEN found
    ELSE IF AnyKeyword(text, contractTypes[i].keywords)
    THEN DetectLastFrom(text, i + 1, contractTypes[i].type)
    ELSE DetectLastFrom(text, i + 1, found)

detectContractTypeLastMatch(requirements) ==
    DetectLastFrom(toLowerCase(requirements), 1, "custom")

detectContractType(requirements) == DetectFrom(toLowerCase(requirements), 1)

\* getTypeSpecificPrompt: prompts[contractType] || prompts.custom, named by
\* the key of the block that is used.
getTypeSpecificPrompt(contractType) ==
    IF contractType \in TypeNames THEN contractType ELSE "custom"

\* getSystemPrompt: the base prompt followed by the block of the type.
getSystemPrompt(contractType) ==
    [base |-> "basePrompt", specific |-> getTypeSpecificPrompt(contractType)]

\* this.contractTypes[contractType]?.name || 'smart contract'
TypeDisplayName(contractType) ==
    IF contractType \in TypeNames
    THEN (CHOOSE c \in {contractTypes[i] : i \in 1..Len(contractTypes)} :
              c.type = contractType).name
    ELSE "smart contract"

\* generateUserPrompt with options = {}: the heading and the requirements.
generateUserPrompt(requirements, contractType) ==
    [heading |-> TypeDisplayName(contractType), requirements |-> requirements]

---------------------------------------------------------------------------
(* The template service: validateAndCleanContract.  The regular            *)
(* expressions of the source never match across a line break, so after the *)
(* code fences are removed they are applied line by line.                  *)

\* A TLA+ string cannot hold the backquote, so ~ stands for it in every text
\* of the model (no pattern of the source mentions ~): ~~~ is the code fence.
Fence == "~~~"

\* s.replace(/<fence>\n?/g, ''): every occurrence of the fence removed,
\* together with the line break directly after it when there is one.
RECURSIVE RemoveFence(_, _)
RemoveFence(s, fence) ==
    LET i == IndexFrom(s, fence, 1) IN
    IF i = 0 THEN s
    ELSE LET after == i + Len(fence)
             skip == IF after <= Len(s) /\ CharAt(s, after) = "\n" THEN 1 ELSE 0
         IN SubSeq(s, 1, i - 1) \o RemoveFence(SubSeq(s, after + skip, Len(s)), fence)

\* The index of the last character of the shortest match of
\* parts[k] .*? parts[k+1] .*? ... that starts at or after from, or 0.
RECURSIVE ChainEnd(_, _, _, _)
ChainEnd(low, parts, k, from) ==
    LET i == IndexFrom(low, parts[k], from) IN
    IF i = 0 THEN 0
    ELSE IF k = Len(parts) THEN i + Len(parts[k]) - 1
    ELSE ChainEnd(low, parts, k + 1, i + Len(parts[k]))

\* line.replace(/A.*?B.*?C/gi, '') for parts = <<a, b, c>> in lower case:
\* each leftmost lazy match removed.
RECURSIVE ReplaceLazy(_, _)
ReplaceLazy(line, parts) ==
    LET low == toLowerCase(line)
        p == IndexFrom(low, parts[1], 1)
        e == IF p = 0 THEN 0 ELSE ChainEnd(low, parts, 2, p + Len(parts[1]))
    IN  IF p = 0 \/ e = 0 THEN line
        ELSE SubSeq(line, 1, p - 1) \o ReplaceLazy(SubSeq(line, e + 1, Len(line)), parts)

\* line.replace(/^.*?word.*?:/gim, ''): the line's start up to the first
\* colon after the first occurrence of word removed.
ReplaceAnchored(line, word) ==
    LET e == ChainEnd(toLowerCase(line), <<word, ":">>, 1, 1) IN
    IF e = 0 THEN line ELSE SubSeq(line, e + 1, Len(line))

\* line.replace(/^prefix.*$/gim, ''): a line that starts with prefix emptied.
ReplaceLine(line, prefix) ==
    IF StartsWith(toLowerCase(line), prefix) THEN "" ELSE line

\* line.replace(/^\*\*.*?\*\*$/gim, '')
ReplaceBold(line) ==
    IF Len(line) >= 4 /\ StartsWith(line, "**") /\ EndsWith(line, "**") THEN "" ELSE line

\* The sixteen explanatoryPatterns, in the order of the array.
explanatoryPatterns ==
    << [kind |-> "lazy", parts |-> <<"here's", "contract", ":">>],
       [kind |-> "lazy", parts |-> <<"this", "contract", ":">>],
       [kind |-> "lazy", parts |-> <<"i'll", "create", ":">>],
       [kind |-> "lazy", parts |-> <<"below is", ":">>],
       [kind |-> "lazy", parts |-> <<"the following", ":">>],
       [kind |-> "lazy", parts |-> <<"here is", ":">>],
       [kind |-> "lazy", parts |-> <<"this is", ":">>],
       [kind |-> "anchored", parts |-> <<"implementation">>],
       [kind |-> "anchored", parts |-> <<"example">>],
       [kind |-> "anchored", parts |-> <<"solution">>],
       [kind |-> "line", parts |-> <<"note:">>],
       [kind |-> "line", parts |-> <<"important:">>],
       [kind |-> "line", parts |-> <<"remember:">>],
       [kind |-> "bold", parts |-> <<>>],
       [kind |-> "line", parts |-> <<"## ">>],
       [kind |-> "line", parts |-> <<"# ">>] >>

\* line.replace(pattern, '')
ReplacePattern(line, pattern) ==
    CASE pattern.kind = "lazy" -> ReplaceLazy(line, pattern.parts)
      [] pattern.kind = "anchored" -> ReplaceAnchored(line, pattern.parts[1])
      [] pattern.kind = "line" -> ReplaceLine(line, pattern.parts[1])
      [] pattern.kind = "bold" -> ReplaceBold(line)

\* for (const pattern of explanatoryPatterns) cleaned = cleaned.replace(pattern, ''),
\* from pattern k on.  No pattern changes the empty line.
RECURSIVE RemoveExplanatoryFrom(_, _)
RemoveExplanatoryFrom(line, k) ==
    IF line = "" \/ k > Len(explanatoryPatterns) THEN line
    ELSE RemoveExplanatoryFrom(ReplacePattern(line, explanatoryPatterns[k]), k + 1)

RemoveExplanatory(line) == RemoveExplanatoryFrom(line, 1)

\* trimmedLine.match(/^(contract|interface|library)\s+\w+/)
IsDeclaration(t) ==
    \E kw \in {"contract", "interface", "library"} :
        /\ StartsWith(t, kw)
        /\ LET rest == SubSeq(t, Len(kw) + 1, Len(t)) IN
           /\ rest # ""
           /\ IsSpace(CharAt(rest, 1))
           /\ LET w == TrimStart(rest) IN w # "" /\ IsWord(CharAt(w, 1))

IncludesAny(t, words) == \E w \in words : Includes(t, w)

isSolidityLine(t, foundSolidityStart) ==
    \/ StartsWith(t, "// SPDX-License-Identifier:")
    \/ StartsWith(t, "pragma solidity")
    \/ StartsWith(t, "import ")
    \/ IsDeclaration(t)
    \/ (StartsWith(t, "//") /\ foundSolidityStart)
    \/ /\ foundSolidityStart
       /\ \/ IncludesAny(t, {"{", "}", "function", "modifier", "event", "struct",
                             "enum", "mapping", "uint", "string", "bool",
                             "address", "bytes"})
          \/ t = ""

\* trimmedLine.match(/^\d+\./)
IsNumbered(t) ==
    LET rest == {i \in 1..Len(t) : ~IsDigit(CharAt(t, i))} IN
    rest # {} /\ Min(rest) > 1 /\ CharAt(t, Min(rest)) = "."

isExplanation(t) ==
    /\ Len(t) > 0
    /\ ~StartsWith(t, "//")
    /\ \/ IncludesAny(t, {"This contract", "The above", "This implementation",
                          "Features:", "Usage:", "Note:", "Important:", "Remember:"})
       \/ IsNumbered(t)
       \/ StartsWith(t, "- ")
       \/ StartsWith(t, "* ")
       \/ Includes(t, "explanation")
       \/ (Includes(t, "deploy") /\ ~Includes(t, "function"))
       \/ (CountChar(t, " ") + 1 > 8 /\ ~Includes(t, "(") /\ ~Includes(t, "{"))

\* The variables of the for loop over allLines; done after the break.
LoopStart ==
    [processedLines |-> <<>>, foundSolidityStart |-> FALSE, contractDepth |-> 0,
     inContract |-> FALSE, done |-> FALSE]

\* One iteration of the loop, on the given line.
LoopBody(st, line) ==
    LET t == Trim(line)
        sol == isSolidityLine(t, st.foundSolidityStart)
        found == st.foundSolidityStart \/ sol
        decl == IsDeclaration(t)
        inC == st.inContract \/ decl
        depth == IF inC
                 THEN (IF decl THEN 0 ELSE st.contractDepth)
                      + CountChar(line, "{") - CountChar(line, "}")
                 ELSE st.contractDepth
    IN  IF ~st.foundSolidityStart /\ t = "" THEN st
        ELSE IF ~sol /\ ~found THEN st
        ELSE IF found /\ ~sol /\ isExplanation(t)
        THEN [st EXCEPT !.foundSolidityStart = found]
        ELSE [processedLines |-> Append(st.processedLines, line),
              foundSolidityStart |-> found,
              contractDepth |-> depth,
              inContract |-> inC,
              done |-> inC /\ depth = 0 /\ Includes(t, "}")]

\* The loop from line i on: its variables when it ends.
RECURSIVE ProcessLines(_, _, _)
ProcessLines(allLines, i, st) ==
    IF st.done \/ i > Len(allLines) THEN st
    ELSE ProcessLines(allLines, i + 1, LoopBody(st, allLines[i]))

\* lines.findIndex(line => line.includes('SPDX-License-Identifier')), 1-based; 0 for -1.
RECURSIVE FindLicense(_, _)
FindLicense(lines, i) ==
    IF i > Len(lines) THEN 0
    ELSE IF Includes(lines[i], "SPDX-License-Identifier") THEN i
    ELSE FindLicense(lines, i + 1)

\* lines.splice(index, 0, item)
Splice(lines, index, item) ==
    SubSeq(lines, 1, index) \o <<item>> \o SubSeq(lines, index + 1, Len(lines))

\* A header prepended whether or not the text has one.
EnsureLicenseAlways(cleaned) == "// SPDX-License-Identifier: MIT\n" \o cleaned

EnsureLicense(cleaned) ==
    IF Includes(cleaned, "SPDX-License-Identifier") THEN cleaned
    ELSE "// SPDX-License-Identifier: MIT\n" \o cleaned

EnsurePragma(cleaned) ==
    IF Includes(cleaned, "pragma solidity") THEN cleaned
    ELSE LET lines == Split(cleaned, "\n")
             licenseIndex == FindLicense(lines, 1)
         IN  IF licenseIndex # 0
             THEN Join(Splice(lines, licenseIndex, "pragma solidity ^0.8.19;"), "\n")
             ELSE cleaned

\* s.replace(/\n{3,}/g, '\n\n'): of a run of three or more line breaks the
\* first two are kept.
CollapseBlank(s) ==
    KeepChars(s, {i \in 1..Len(s) :
                    ~(/\ i >= 3
                      /\ CharAt(s, i) = "\n"
                      /\ CharAt(s, i - 1) = "\n"
                      /\ CharAt(s, i - 2) = "\n")})

\* The patterns applied to every line; SubSeq makes the result a tuple.
MapLines(lines) ==
    SubSeq([i \in 1..Len(lines) |-> RemoveExplanatory(lines[i])], 1, Len(lines))

\* The value of cleaned after the loop: the fences and the explanatory
\* patterns removed, the kept lines joined.
ProcessedText(str) ==
    LET unfenced == RemoveFence(RemoveFence(str, Fence \o "solidity"), Fence)
        allLines == MapLines(Split(unfenced, "\n"))
    IN  Join(ProcessLines(allLines, 1, LoopStart).processedLines, "\n")

\* validateAndCleanContract(contractCode): the text returned, or the message
\* of the Error thrown.
validateAndCleanContract(contractCode) ==
    IF ~Truthy(contractCode) \/ contractCode.type # "string"
    THEN [ok |-> FALSE, text |-> "", error |-> "Invalid contract code received from LLM"]
    ELSE
      LET cleaned == EnsurePragma(EnsureLicense(ProcessedText(contractCode.str)))
      IN  IF ~Includes(cleaned, "contract ") /\ ~Includes(cleaned, "interface ")
             /\ ~Includes(cleaned, "library ")
          THEN [ok |-> FALSE, text |-> "",
                error |-> "Generated code does not contain a valid Solidity contract"]
          ELSE [ok |-> TRUE, text |-> Trim(CollapseBlank(cleaned)), error |-> ""]

---------------------------------------------------------------------------
(* A request as the handler reads it.  req.body is undefined when the      *)
(* request carries no body, and otherwise an object with the fields the    *)
(* handler destructures.                                                   *)

NoBody == [type |-> "undefined", requirements |-> Undefined, contractType |-> Undefined]
Body(requirements, contractType) ==
    [type |-> "object", requirements |-> requirements, contractType |-> contractType]

NoRequest ==
    [method |-> "", xForwardedFor |-> Undefined, remoteAddress |-> Undefined,
     body |-> NoBody]

\* req.headers['x-forwarded-for'] || req.connection.remoteAddress || 'unknown'
clientIp(r) == OrElse(OrElse(r.xForwardedFor, r.remoteAddress), Str("unknown")).str

---------------------------------------------------------------------------
(* The inputs of the model. *)

Ip == "203.0.113.7"

Post(body) ==
    [method |-> "POST", xForwardedFor |-> Str(Ip), remoteAddress |-> Undefined,
     body |-> body]

Typical == "Create a utility token with 1,000,000 supply called FooCoin (FOO)"
Long5000 == "token " \o Repeat("a", MaxRequirementsLength - 6)
Long5001 == Long5000 \o "a"

\* Requirements the handler accepts, and requirements it refuses.
ValidRequirements == {Str("make a nft"), Str(Typical), Str(Long5000)}
InvalidRequirements == {Undefined, Num("42"), Str(""), Str("nft maker"), Str(Long5001)}

Requests ==
    {[NoRequest EXCEPT !.method = "OPTIONS"], [NoRequest EXCEPT !.method = "GET"],
     Post(NoBody)}
    \cup {Post(Body(q, Undefined)) : q \in ValidRequirements \cup InvalidRequirements}
    \cup {Post(Body(Str(Typical), c)) : c \in {Str("erc721"), Str("lottery")}}

GovRequests == {Post(Body(Str(Typical), Undefined)), Post(Body(Str("nft maker"), Undefined))}

Identities == {clientIp(r) : r \in Requests \cup GovRequests}

\* Texts a provider may answer with.
CleanText ==
    "// SPDX-License-Identifier: MIT\npragma solidity ^0.8.19;\n\ncontract Token {\n    uint256 public totalSupply;\n}"
NoisyText ==
    "Here is the contract:\n~~~solidity\ncontract A {\n    uint256 x;\n}\n~~~\nThis contract is simple."
ProseText == "I cannot help with that request."

\* What an axios.post settles with: a rejection (kind "error", with the
\* message of the error) or a response (kind "response") whose data holds
\* the list the provider's wire format names (choices, content): absent,
\* empty, with a first item that lacks the message object ("bare"), or with a
\* first item that carries content ("items").
Failed(message) == [kind |-> "error", message |-> message, list |-> "absent", content |-> Undefined]
Answered(list, content) == [kind |-> "response", message |-> "", list |-> list, content |-> content]

\* axios rejects with 'Network Error' and, after this.timeout, with
\* 'timeout of 30000ms exceeded'.
NetworkError == Failed("Network Error")
TimeoutError == Failed("timeout of " \o ToString(timeout) \o "ms exceeded")

FailureOutcomes ==
    {NetworkError, TimeoutError, Answered("absent", Undefined), Answered("empty", Undefined)}

Outcomes ==
    FailureOutcomes
    \cup {Answered("bare", Undefined)}
    \cup {Answered("items", c) : c \in {Str(CleanText), Str(NoisyText), Str(ProseText), Str(""), Null}}

GovOutcomes == {Answered("items", Str(CleanText))}

\* process.env as the function may find it.
Configured == [LLM_PROVIDER |-> Str("openai"), OPENAI_API_KEY |-> Str("sk-test"),
               ANTHROPIC_API_KEY |-> Undefined]

Envs ==
    {Configured,
     [Configured EXCEPT !.LLM_PROVIDER = Undefined],
     [Configured EXCEPT !.OPENAI_API_KEY = Undefined],
     [LLM_PROVIDER |-> Str("anthropic"), OPENAI_API_KEY |-> Undefined,
      ANTHROPIC_API_KEY |-> Str("sk-ant-test")],
     [LLM_PROVIDER |-> Str("anthropic"), OPENAI_API_KEY |-> Str("sk-test"),
      ANTHROPIC_API_KEY |-> Undefined],
     [Configured EXCEPT !.LLM_PROVIDER = Str("gemini")]}

\* The pure functions of the template service on the inputs of the model,
\* evaluated once: the handler looks its inputs up here and computes only
\* what the tables do not hold.
DetectTable ==
    {<<v.str, detectContractType(v.str)>> : v \in ValidRequirements}

CleanTable ==
    {<<o.content, validateAndCleanContract(o.content)>> : o \in Outcomes}

Lookup(table, key) == (CHOOSE entry \in table : entry[1] = key)[2]

Detected(requirements) ==
    IF \E entry \in DetectTable : entry[1] = requirements
    THEN Lookup(DetectTable, requirements)
    ELSE detectContractType(requirements)

Cleaned(contractCode) ==
    IF \E entry \in CleanTable : entry[1] = contractCode
    THEN Lookup(CleanTable, contractCode)
    ELSE validateAndCleanContract(contractCode)

---------------------------------------------------------------------------
(* Responses, errors and the record of one handler invocation. *)

NoResponse ==
    [status |-> 0, json |-> FALSE, success |-> FALSE, type |-> "", message |-> "",
     details |-> "", contract |-> "", contractType |-> ""]

\* res.status(status).json({success: false, error: {message, details, type}})
ErrorResponse(status, message, details, type) ==
    [status |-> status, json |-> TRUE, success |-> FALSE, type |-> type,
     message |-> message, details |-> details, contract |-> "", contractType |-> ""]

\* res.status(200).json({success: true, data: {contract, contractType, metadata}})
SuccessResponse(contract, contractType) ==
    [status |-> 200, json |-> TRUE, success |-> TRUE, type |-> "", message |-> "",
     details |-> "", contract |-> contract, contractType |-> contractType]

\* new Error(message), and the TypeError the engine throws.
Error(message) == [name |-> "Error", message |-> message]
TypeError(message) == [name |-> "TypeError", message |-> message]

NoPrompt == [system |-> [base |-> "", specific |-> ""],
             user |-> [heading |-> "", requirements |-> ""]]

\* pc: idle (no invocation), calling (an axios.post is pending), waiting
\* (a backoff timer is pending), done (the response is sent).
\* admitted: what checkRateLimit returned.  trace: the work performed, in
\* order.  posts: the axios.post calls made.  settled: what they settled
\* with.  waits: the arguments of this.delay.  failures: the messages the
\* catch block of the retry loop has logged.  result: what generateContract
\* returned.  sent: how many responses the invocation has sent.
IdleSlot ==
    [pc |-> "idle", request |-> NoRequest, admitted |-> FALSE, trace |-> <<>>,
     provider |-> "", detectedType |-> "", prompt |-> NoPrompt, attempt |-> 0,
     posts |-> <<>>, settled |-> <<>>, waits |-> <<>>, failures |-> <<>>,
     returned |-> FALSE, result |-> Undefined, response |-> NoResponse,
     sent |-> 0]

Did(slot, step) == \E i \in 1..Len(slot.trace) : slot.trace[i] = step

Respond(slot, response) ==
    [slot EXCEPT !.pc = "done", !.response = response, !.sent = slot.sent + 1]

\* A handler without its catch block: the error leaves the handler and the
\* catch block of app.post('/api/generate') answers, without a type.
HandlerCatchRethrows(slot, error) ==
    Respond(slot, ErrorResponse(500, "Internal server error", error.message, ""))

\* The catch block of the handler.
HandlerCatch(slot, error) ==
    Respond(slot, ErrorResponse(500, "Contract generation failed", error.message,
                                OrElse(Str(error.name), Str("GenerationError")).str))

---------------------------------------------------------------------------
(* LLMService. *)

RECURSIVE Pow(_, _)
Pow(b, n) == IF n = 0 THEN 1 ELSE b * Pow(b, n - 1)

\* A faulty variant of BackoffDelay: the exponent one too small.
BackoffDelayHalved(attempt) == Pow(2, attempt - 1) * 1000

\* The delay of the backoff after a failed attempt: Math.pow(2, attempt) * 1000.
BackoffDelay(attempt) == Pow(2, attempt) * 1000

\* Faulty variants of AttemptFailed: one that gives up one attempt early,
\* one that reports the first failure for the last.
AttemptFailedGivesUpEarly(slot, message) ==
    LET logged == [slot EXCEPT !.failures = Append(@, message)] IN
    IF slot.attempt >= maxRetries - 1
    THEN HandlerCatch(logged, Error("LLM generation failed after " \o ToString(maxRetries)
                                    \o " attempts: " \o message))
    ELSE [logged EXCEPT !.pc = "waiting",
                        !.trace = Append(@, "delay"),
                        !.waits = Append(@, BackoffDelay(slot.attempt))]

AttemptFailedFirstMessage(slot, message) ==
    LET logged == [slot EXCEPT !.failures = Append(@, message)] IN
    IF slot.attempt = maxRetries
    THEN HandlerCatch(logged, Error("LLM generation failed after " \o ToString(maxRetries)
                                    \o " attempts: " \o logged.failures[1]))
    ELSE [logged EXCEPT !.pc = "waiting",
                        !.trace = Append(@, "delay"),
                        !.waits = Append(@, BackoffDelay(slot.attempt))]

\* The catch block of the retry loop: the last attempt rethrows, which ends
\* generateContract and lands in the handler's catch; an earlier one awaits
\* this.delay.
\* A loop without its bound: every failure is followed by a wait.
AttemptFailedNeverGivesUp(slot, message) ==
    [slot EXCEPT !.failures = Append(@, message),
                 !.pc = "waiting",
                 !.trace = Append(@, "delay"),
                 !.waits = Append(@, BackoffDelay(slot.attempt))]

AttemptFailed(slot, message) ==
    LET logged == [slot EXCEPT !.failures = Append(@, message)] IN
    IF slot.attempt = maxRetries
    THEN HandlerCatch(logged, Error("LLM generation failed after " \o ToString(maxRetries)
                                    \o " attempts: " \o message))
    ELSE [logged EXCEPT !.pc = "waiting",
                        !.trace = Append(@, "delay"),
                        !.waits = Append(@, BackoffDelay(slot.attempt))]

\* The requests callOpenAI and callAnthropic send.
ProviderUrl(provider) ==
    IF provider = "openai" THEN "https://chat.cloudapi.vip/v1/chat/completions"
    ELSE "https://chat.cloudapi.vip/v1/messages"

\* `Bearer ${process.env.<KEY>}`: an unset variable reads "undefined".
Bearer(key) == "Bearer " \o (IF key.type = "undefined" THEN "undefined" ELSE key.str)

Authorization(provider, e) ==
    IF provider = "openai" THEN Bearer(e.OPENAI_API_KEY) ELSE Bearer(e.ANTHROPIC_API_KEY)

\* The try block of one iteration of the retry loop, up to its await: the
\* axios.post of the configured provider, or the throw for any other name.
\* A service that gives up at once when the selector names no backend.
AttemptStartFailsFast(slot, e) ==
    IF slot.provider \in {"openai", "anthropic"}
    THEN [slot EXCEPT !.pc = "calling",
                      !.trace = Append(@, "axios.post"),
                      !.posts = Append(@, [url |-> ProviderUrl(slot.provider),
                                           authorization |-> Authorization(slot.provider, e),
                                           timeout |-> timeout])]
    ELSE HandlerCatch([slot EXCEPT !.failures = Append(@, "Unsupported LLM provider: "
                                                            \o slot.provider)],
                      Error("Unsupported LLM provider: " \o slot.provider))

\* A service that turns to the other backend once the selected one has failed.
AttemptStartFallsBack(slot, e) ==
    LET other == IF slot.provider = "openai" THEN "anthropic" ELSE "openai"
        used == IF slot.attempt > 1 THEN other ELSE slot.provider
    IN  [slot EXCEPT !.pc = "calling",
                     !.trace = Append(@, "axios.post"),
                     !.posts = Append(@, [url |-> ProviderUrl(used),
                                          authorization |-> Authorization(used, e),
                                          timeout |-> timeout])]

AttemptStart(slot, e) ==
    IF slot.provider \in {"openai", "anthropic"}
    THEN [slot EXCEPT !.pc = "calling",
                      !.trace = Append(@, "axios.post"),
                      !.posts = Append(@, [url |-> ProviderUrl(slot.provider),
                                           authorization |-> Authorization(slot.provider, e),
                                           timeout |-> timeout])]
    ELSE AttemptFailed(slot, "Unsupported LLM provider: " \o slot.provider)

InvalidResponse(provider) ==
    IF provider = "openai" THEN "Invalid response from OpenAI API"
    ELSE "Invalid response from Anthropic API"

\* A faulty variant of HandlerFinish: the provider text goes out as it came.
HandlerFinishUnchecked(slot, result) ==
    Respond([slot EXCEPT !.returned = TRUE,
                         !.result = result,
                         !.trace = Append(@, "validateAndCleanContract")],
            SuccessResponse(result.str, slot.detectedType))

\* The rest of the handler once generateContract has returned result.
HandlerFinish(slot, result) ==
    LET cleaned == Cleaned(result)
        checked == [slot EXCEPT !.returned = TRUE,
                                !.result = result,
                                !.trace = Append(@, "validateAndCleanContract")]
    IN  IF cleaned.ok
        THEN Respond(checked, SuccessResponse(cleaned.text, slot.detectedType))
        ELSE HandlerCatch(checked, Error(cleaned.error))

\* A faulty variant of AxiosSettled: the envelope is not checked, so the
\* first item of an absent or empty list is read as undefined text.
AxiosSettledUnchecked(slot, outcome) ==
    LET seen == [slot EXCEPT !.settled = Append(@, outcome)] IN
    IF outcome.kind = "error" THEN AttemptFailed(seen, outcome.message)
    ELSE HandlerFinish(seen, outcome.content)

\* callOpenAI / callAnthropic after the await, and what follows in
\* generateContract and in the handler until the next await.  Reading
\* choices[0].message.content of an item without message throws a TypeError;
\* content[0].text of an item without text is undefined.
AxiosSettled(slot, outcome) ==
    LET seen == [slot EXCEPT !.settled = Append(@, outcome)] IN
    IF outcome.kind = "error" THEN AttemptFailed(seen, outcome.message)
    ELSE IF outcome.list \in {"absent", "empty"}
    THEN AttemptFailed(seen, InvalidResponse(slot.provider))
    ELSE IF outcome.list = "bare" /\ slot.provider = "openai"
    THEN AttemptFailed(seen, "Cannot read properties of undefined (reading 'content')")
    ELSE HandlerFinish(seen, outcome.content)

\* The backoff timer fires: attempt++ and the next iteration of the loop.
DelayElapsed(slot, e) == AttemptStart([slot EXCEPT !.attempt = @ + 1], e)

---------------------------------------------------------------------------
(* The handler, from its entry to its first await or to its response. *)

\* The checks on req.body.requirements.
RequirementsTooShort(requirements) ==
    \/ ~Truthy(requirements)
    \/ requirements.type # "string"
    \/ Len(requirements.str) < MinRequirementsLength

RequirementsTooLong(requirements) == Len(requirements.str) > MaxRequirementsLength

\* The handler once the body is destructured.
HandlerValidated(slot, e) ==
    LET body == slot.request.body
        validated == [slot EXCEPT !.trace = Append(@, "validate")]
    IN
    IF RequirementsTooShort(body.requirements)
    THEN Respond(validated, ErrorResponse(400,
             "Requirements must be at least 10 characters long", "", "ValidationError"))
    ELSE IF RequirementsTooLong(body.requirements)
    THEN Respond(validated, ErrorResponse(400,
             "Requirements must not exceed 5000 characters", "", "ValidationError"))
    ELSE
      LET detect == ~Truthy(body.contractType)
          detectedType == IF detect THEN Detected(body.requirements.str)
                          ELSE body.contractType.str
          composed ==
              [validated EXCEPT
                 !.provider = OrElse(e.LLM_PROVIDER, Str("openai")).str,
                 !.detectedType = detectedType,
                 !.prompt = [system |-> getSystemPrompt(detectedType),
                             user |-> generateUserPrompt(body.requirements.str, detectedType)],
                 !.trace = @ \o (IF detect THEN <<"detectContractType">> ELSE <<>>)
                             \o <<"getSystemPrompt", "generateUserPrompt", "generateContract">>,
                 !.attempt = 1]
      IN  AttemptStart(composed, e)

\* The handler after an admitted rate-limit check: destructuring a body
\* that is undefined throws a TypeError into the handler's catch.
HandlerAdmitted(slot, e) ==
    IF slot.request.body.type = "undefined"
    THEN HandlerCatch(slot, TypeError(
             "Cannot destructure property 'requirements' of 'req.body' as it is undefined."))
    ELSE HandlerValidated(slot, e)

\* A faulty variant of HandlerEntry: the 429 branch does not return.
HandlerEntryFallsThrough(r, t, map, e) ==
    LET slot == [IdleSlot EXCEPT !.request = r] IN
    IF r.method = "OPTIONS"
    THEN [slot |-> Respond(slot, [NoResponse EXCEPT !.status = 200]), map |-> map]
    ELSE IF r.method # "POST"
    THEN [slot |-> Respond(slot, ErrorResponse(405, "Method not allowed", "",
                                               "MethodNotAllowed")),
          map |-> map]
    ELSE
      LET rl == checkRateLimit(map, clientIp(r), t, limit, window)
          checked == [slot EXCEPT !.trace = <<"checkRateLimit">>, !.admitted = rl.result]
      IN  [slot |-> HandlerAdmitted(checked, e), map |-> rl.map]

\* A handler that validates the body before it asks the rate limiter.
HandlerEntryValidatesFirst(r, t, map, e) ==
    LET slot == [IdleSlot EXCEPT !.request = r] IN
    IF r.method = "OPTIONS"
    THEN [slot |-> Respond(slot, [NoResponse EXCEPT !.status = 200]), map |-> map]
    ELSE IF r.method # "POST"
    THEN [slot |-> Respond(slot, ErrorResponse(405, "Method not allowed", "",
                                               "MethodNotAllowed")),
          map |-> map]
    ELSE IF /\ r.body.type # "undefined"
            /\ \/ RequirementsTooShort(r.body.requirements)
               \/ RequirementsTooLong(r.body.requirements)
    THEN [slot |-> HandlerValidated(slot, e), map |-> map]
    ELSE
      LET rl == checkRateLimit(map, clientIp(r), t, limit, window)
          checked == [slot EXCEPT !.trace = <<"checkRateLimit">>, !.admitted = rl.result]
      IN  IF ~rl.result
          THEN [slot |-> Respond(checked, ErrorResponse(429,
                            "Too many requests. Please try again later.", "",
                            "RateLimitExceeded")),
                map |-> rl.map]
          ELSE [slot |-> HandlerAdmitted(checked, e), map |-> rl.map]

\* handler(req, res) with Date.now() = t and the Map map: the invocation's
\* record when the run stops and the Map it leaves behind.
HandlerEntry(r, t, map, e) ==
    LET slot == [IdleSlot EXCEPT !.request = r] IN
    IF r.method = "OPTIONS"
    THEN [slot |-> Respond(slot, [NoResponse EXCEPT !.status = 200]), map |-> map]
    ELSE IF r.method # "POST"
    THEN [slot |-> Respond(slot, ErrorResponse(405, "Method not allowed", "",
                                               "MethodNotAllowed")),
          map |-> map]
    ELSE
      LET rl == checkRateLimit(map, clientIp(r), t, limit, window)
          checked == [slot EXCEPT !.trace = <<"checkRateLimit">>, !.admitted = rl.result]
      IN  IF ~rl.result
          THEN [slot |-> Respond(checked, ErrorResponse(429,
                            "Too many requests. Please try again later.", "",
                            "RateLimitExceeded")),
                map |-> rl.map]
          ELSE [slot |-> HandlerAdmitted(checked, e), map |-> rl.map]

---------------------------------------------------------------------------
(* Actions. *)

\* The times in admitted that the trailing window ending at t still holds.
InWindow(admitted, t) == validRequests(admitted, t, window)

\* A request arrives and the handler runs to its first await.
Start(s, requests) ==
    /\ req[s].pc = "idle"
    /\ \E r \in requests :
         LET h == HandlerEntry(r, now, rateLimitMap, env) IN
         /\ req' = [req EXCEPT ![s] = h.slot]
         /\ rateLimitMap' = h.map
         /\ admissions' = IF h.slot.admitted
                          THEN [admissions EXCEPT ![clientIp(r)] = Append(@, now)]
                          ELSE admissions
    /\ UNCHANGED <<now, env, call, browser>>

\* The pending axios.post of slot s settles.
Settle(s, outcomes) ==
    /\ req[s].pc = "calling"
    /\ \E o \in outcomes : req' = [req EXCEPT ![s] = AxiosSettled(req[s], o)]
    /\ UNCHANGED <<now, rateLimitMap, env, admissions, call, browser>>

\* The backoff timer of slot s fires.
Wake(s) ==
    /\ req[s].pc = "waiting"
    /\ req' = [req EXCEPT ![s] = DelayElapsed(req[s], env)]
    /\ UNCHANGED <<now, rateLimitMap, env, admissions, call, browser>>

\* The invocation of slot s has responded and returned.
Close(s) ==
    /\ req[s].pc = "done"
    /\ req' = [req EXCEPT ![s] = IdleSlot]
    /\ UNCHANGED <<now, rateLimitMap, env, admissions, call, browser>>

\* The clock moves on.
Tick ==
    /\ now < MaxTicks * TickMs
    /\ now' = now + TickMs
    /\ admissions' = [ip \in Identities |-> InWindow(admissions[ip], now')]
    /\ UNCHANGED <<rateLimitMap, env, req, call, browser>>

\* No page of the front end is open while the function is exercised.
NoBrowser == [open |-> FALSE]

\* No method is called on its own while the handler is exercised.
NoCall == [method |-> "", arg |-> "", out |-> <<>>]

InitWith(envs) ==
    /\ now = 0
    /\ rateLimitMap = [ip \in Identities |-> <<>>]
    /\ env \in envs
    /\ req = [s \in Slots |-> IdleSlot]
    /\ admissions = [ip \in Identities |-> <<>>]

\* One invocation at a time, every environment, request and provider
\* outcome; the clock stands still.
Init == InitWith(Envs) /\ call = NoCall /\ browser = NoBrowser

Next ==
    \/ Start("r1", Requests)
    \/ Settle("r1", Outcomes)
    \/ Wake("r1")
    \/ Close("r1")

Spec == Init /\ [][Next]_vars

\* axios.post settles within this.timeout (the timeout option of the call) and
\* the timer of this.delay fires: both steps are taken once they are pending.
SpecLive ==
    /\ Init
    /\ [][Next]_vars
    /\ WF_vars(Settle("r1", Outcomes))
    /\ WF_vars(Wake("r1"))

\* Concurrent invocations against a configured provider that answers, with
\* the clock moving.
InitGov == InitWith({Configured}) /\ call = NoCall /\ browser = NoBrowser

NextGov ==
    \/ \E s \in Slots : Start(s, GovRequests)
    \/ \E s \in Slots : Settle(s, GovOutcomes)
    \/ \E s \in Slots : Close(s)
    \/ Tick

SpecGov == InitGov /\ [][NextGov]_vars

\* templateService.detectContractType(text), for texts of up to MaxWords
\* words.
TextsUpTo(words, n) ==
    {Join(ws, " ") : ws \in UNION {[1..k -> words] : k \in 0..n}}

DetectWords ==
    {"Token", "NFT", "smart", "wallet", "Governance", "ICO", "yield", "DAO",
     "bespoke", "plain"}

DetectInputs == TextsUpTo(DetectWords, MaxWords)

InitDetect ==
    /\ InitWith({Configured})
    /\ browser = NoBrowser
    /\ \E text \in DetectInputs :
           call = [method |-> "detectContractType", arg |-> text, out |-> <<>>]

Detect ==
    /\ call.method = "detectContractType"
    /\ call.out = <<>>
    /\ call' = [call EXCEPT !.out = <<detectContractType(call.arg)>>]
    /\ UNCHANGED <<now, rateLimitMap, env, req, admissions, browser>>

SpecDetect == InitDetect /\ [][Detect]_vars

\* templateService.validateAndCleanContract(text), and once more on the text
\* it returned.  A provider text is made of a preamble, a header, code and a
\* trailer, each of which may be missing.
Preambles == {"", "Here is the contract:", Fence \o "solidity"}

Headers ==
    {"", "// SPDX-License-Identifier: GPL-3.0", "pragma solidity ^0.8.0;",
     "// SPDX-License-Identifier: GPL-3.0\npragma solidity ^0.8.0;",
     "import \"./I.sol\";\n// SPDX-License-Identifier: GPL-3.0"}

Codes ==
    {"", "I cannot help with that request.",
     "contract A {\n  uint x;\n}",
     "contract\tA {\n}",
     "contract A {\n  // implementation: uses implementation: uint\n}",
     "contract A {\n  /*\n  contract B is the old name\n  */\n  uint x;\n}",
     "interface I {\n}\ncontract A is I {\n}",
     "contract A {\n  string s = \"SPDX-License-Identifier\";\n}",
     "abstract contract A {\n}\ncontract B is A {\n}"}

Trailers == {"", "Deploy it with Remix", Fence, "\n\n\nThis contract stores a number."}

NonEmpty(part) == part # ""

SanitizerInputs ==
    {Join(SelectSeq(<<p, h, c, t>>, NonEmpty), "\n") :
        p \in Preambles, h \in Headers, c \in Codes, t \in Trailers}

InitSanitize ==
    /\ InitWith({Configured})
    /\ browser = NoBrowser
    /\ \E text \in SanitizerInputs :
           call = [method |-> "validateAndCleanContract", arg |-> text, out |-> <<>>]

Sanitize ==
    /\ call.method = "validateAndCleanContract"
    /\ call.out = <<>>
    /\ call' = [call EXCEPT !.out = <<validateAndCleanContract(Str(call.arg))>>]
    /\ UNCHANGED <<now, rateLimitMap, env, req, admissions, browser>>

SanitizeAgain ==
    /\ call.method = "validateAndCleanContract"
    /\ Len(call.out) = 1
    /\ call.out[1].ok
    /\ call' = [call EXCEPT
                  !.out = Append(@, validateAndCleanContract(Str(call.out[1].text)))]
    /\ UNCHANGED <<now, rateLimitMap, env, req, admissions, browser>>

NextSanitize == Sanitize \/ SanitizeAgain

SpecSanitize == InitSanitize /\ [][NextSanitize]_vars

---------------------------------------------------------------------------
(* The front end (utils.js, web3Auth.js, app.js): localStorage with the    *)
(* keys in the order Object.keys lists them, the HistoryManager and the    *)
(* Web3Auth of the page.  A stored value is absent, the JSON text of an    *)
(* authData object with its timestamp, or the text of a generated          *)
(* contract, which JSON.parse rejects.  op and result are the method       *)
(* called last and what it returned; loggedOut tells that logout() has run *)
(* and authenticate() has not succeeded since.                             *)

AuthKey == "web3AuthData"

\* What localStorage.getItem returns: null ("absent"), the text of a
\* contract ("text") or JSON.stringify(authData) ("json").
Stored(kind, timestamp) == [kind |-> kind, timestamp |-> timestamp]

Queries == {"a token", "a vault", AuthKey}
PagesAsked == 0..3
ItemsPerPageChoices == {1, 5}

\* localStorage.setItem and localStorage.removeItem
setItem(b, key, value) ==
    [b EXCEPT !.items[key] = value,
              !.keys = IF b.items[key] = Stored("absent", 0) THEN Append(@, key) ELSE @]

removeItem(b, key) ==
    LET Other(k) == k # key IN
    [b EXCEPT !.items[key] = Stored("absent", 0), !.keys = SelectSeq(@, Other)]

\* HistoryManager
loadData(b) ==
    LET Listed(k) == k # AuthKey
        listed == SelectSeq(b.keys, Listed)
    IN  [b EXCEPT !.data = [i \in 1..Len(listed) |->
                               [order |-> i, message |-> listed[i],
                                code |-> b.items[listed[i]]]],
                  !.totalItems = Len(listed)]

\* Math.ceil(totalItems / itemsPerPage), for totalItems >= 0 and itemsPerPage > 0
getTotalPages(b) == (b.totalItems + b.itemsPerPage - 1) \div b.itemsPerPage

setPage(b, page) ==
    LET maxPage == (b.totalItems + b.itemsPerPage - 1) \div b.itemsPerPage IN
    [b EXCEPT !.currentPage = IF page > maxPage THEN maxPage
                              ELSE IF page < 1 THEN 1
                              ELSE page]

setItemsPerPage(b, items) == [b EXCEPT !.itemsPerPage = items, !.currentPage = 1]

addItem(b, query, code) == loadData(setItem(b, query, code))

\* Web3Auth
logout(b) ==
    [removeItem(b, AuthKey) EXCEPT !.isAuthenticated = FALSE, !.loggedOut = TRUE]

\* The last run of authenticate(), after verifyMessage has answered: the
\* result has an address or it has none.
authenticateVerified(b, t, hasAddress) ==
    IF hasAddress
    THEN [setItem(b, AuthKey, Stored("json", t)) EXCEPT
             !.isAuthenticated = TRUE, !.loggedOut = FALSE, !.pending = FALSE,
             !.result = TRUE]
    ELSE [b EXCEPT !.pending = FALSE, !.result = FALSE]

\* An isUserAuthenticated that does not look at the age of the record.
isUserAuthenticatedAnyAge(b, t) ==
    IF b.items[AuthKey].kind = "json"
    THEN [b EXCEPT !.isAuthenticated = TRUE, !.result = TRUE]
    ELSE [b EXCEPT !.result = FALSE]

isUserAuthenticated(b, t) ==
    LET authData == b.items[AuthKey] IN
    IF authData = Stored("absent", 0) THEN [b EXCEPT !.result = FALSE]
    ELSE IF authData.kind = "json"
    THEN LET isValid == t - authData.timestamp < AuthValidMs IN
         [b EXCEPT !.isAuthenticated = isValid, !.result = isValid]
    ELSE [logout(b) EXCEPT !.result = FALSE]

\* The page when it has loaded: localStorage is empty, new HistoryManager()
\* has run loadData, new Web3Auth() has run.
NewPage ==
    [open |-> TRUE, keys |-> <<>>, items |-> [k \in Queries |-> Stored("absent", 0)],
     currentPage |-> 1, itemsPerPage |-> 5, totalItems |-> 0, data |-> <<>>,
     isAuthenticated |-> FALSE, pending |-> FALSE, loggedOut |-> FALSE,
     op |-> "", result |-> FALSE]

\* One action per method call; authenticate() is a call and, after its
\* awaits, a last run.
Authenticate ==
    /\ ~browser.pending
    /\ browser' = [browser EXCEPT !.pending = TRUE, !.op = "authenticate"]
    /\ UNCHANGED <<now, rateLimitMap, env, req, admissions, call>>

AuthenticateReturns ==
    /\ browser.pending
    /\ \E hasAddress \in BOOLEAN :
           browser' = [authenticateVerified(browser, now, hasAddress) EXCEPT
                          !.op = "authenticate returns"]
    /\ UNCHANGED <<now, rateLimitMap, env, req, admissions, call>>

CheckAuthenticated ==
    /\ browser' = [isUserAuthenticated(browser, now) EXCEPT !.op = "isUserAuthenticated"]
    /\ UNCHANGED <<now, rateLimitMap, env, req, admissions, call>>

Logout ==
    /\ browser' = [logout(browser) EXCEPT !.op = "logout"]
    /\ UNCHANGED <<now, rateLimitMap, env, req, admissions, call>>

AddItem ==
    /\ \E query \in Queries :
           browser' = [addItem(browser, query, Stored("text", 0)) EXCEPT !.op = "addItem"]
    /\ UNCHANGED <<now, rateLimitMap, env, req, admissions, call>>

SetPage ==
    /\ \E page \in PagesAsked :
           browser' = [setPage(browser, page) EXCEPT !.op = "setPage"]
    /\ UNCHANGED <<now, rateLimitMap, env, req, admissions, call>>

SetItemsPerPage ==
    /\ \E items \in ItemsPerPageChoices :
           browser' = [setItemsPerPage(browser, items) EXCEPT !.op = "setItemsPerPage"]
    /\ UNCHANGED <<now, rateLimitMap, env, req, admissions, call>>

LoadData ==
    /\ browser' = [loadData(browser) EXCEPT !.op = "loadData"]
    /\ UNCHANGED <<now, rateLimitMap, env, req, admissions, call>>

GetItem ==
    /\ browser' = [browser EXCEPT !.op = "getItem"]
    /\ UNCHANGED <<now, rateLimitMap, env, req, admissions, call>>

\* The page is loaded again: localStorage stays, the two objects are
\* constructed anew and init() asks whether the user is authenticated.
Reload ==
    /\ browser' = [isUserAuthenticated(
                       [loadData(browser) EXCEPT !.currentPage = 1,
                                                 !.itemsPerPage = 5,
                                                 !.isAuthenticated = FALSE,
                                                 !.pending = FALSE],
                       now) EXCEPT !.op = "reload"]
    /\ UNCHANGED <<now, rateLimitMap, env, req, admissions, call>>

\* Half a day passes.
Later ==
    /\ now < MaxHalfDays * (AuthValidMs \div 2)
    /\ now' = now + AuthValidMs \div 2
    /\ UNCHANGED <<rateLimitMap, env, req, admissions, call, browser>>

InitPage == InitWith({Configured}) /\ call = NoCall /\ browser = NewPage

NextPage ==
    \/ Authenticate
    \/ AuthenticateReturns
    \/ CheckAuthenticated
    \/ Logout
    \/ AddItem
    \/ SetPage
    \/ SetItemsPerPage
    \/ LoadData
    \/ GetItem
    \/ Reload
    \/ Later

SpecPage == InitPage /\ [][NextPage]_vars

---------------------------------------------------------------------------
(* Properties. *)

\* The step in which slot s takes a POST request: checkRateLimit is called.
GovernorCall(s) ==
    req[s].pc = "idle" /\ req'[s].pc # "idle" /\ req'[s].request.method = "POST"

\* The admissions of the caller of slot s that the window ending now holds.
RecentAdmissions(s) == Len(InWindow(admissions[clientIp(req'[s].request)], now))

\* C1: checkRateLimit (limit 10, window 15 minutes) admits a call of an
\* identity exactly when fewer than 10 admissions of that identity lie in
\* the 15 minutes before the call: up to 10 calls in one window are all
\* admitted, the 11th is rejected, and a call is admitted again once the
\* earlier admissions are a full window old.
C1_AdmitsBelowLimitPerWindow ==
    [][\A s \in Slots :
         GovernorCall(s) => (req'[s].admitted <=> RecentAdmissions(s) < limit)]_vars

\* The identity was rejected, the window of its ten admissions elapsed and
\* its next call is admitted.
C1_AdmittedAgainAfterWindow ==
    \E s, u \in Slots :
        /\ req[s].response.status = 429
        /\ req[u].pc # "idle" /\ req[u].admitted
        /\ now >= window
        /\ rateLimitMap[Ip] = <<now>>

\* C2: under every interleaving of concurrent handler invocations of one
\* identity the admissions of that identity inside the 15-minute window that
\* ends now are never more than 10.
C2_NeverMoreThanLimitInWindow ==
    \A ip \in Identities : Len(InWindow(admissions[ip], now)) <= limit

\* Ten admissions in the window while two invocations of the identity are
\* both waiting for the provider.
C2_LimitReachedWhileConcurrent ==
    /\ Len(InWindow(admissions[Ip], now)) = limit
    /\ \A s \in Slots : req[s].pc = "calling"

\* C3: a request that arrives when its identity has 10 admissions inside the
\* window is answered with status 429 (RateLimitExceeded), and an invocation
\* that answers 429 has done nothing but the rate-limit check: no
\* validation, no classification, no prompt and no provider call.
C3_RejectedDoesNoWork ==
    [][\A s \in Slots :
         (GovernorCall(s) /\ (RecentAdmissions(s) >= limit \/ req'[s].response.status = 429))
         => /\ req'[s].pc = "done"
            /\ req'[s].response.status = 429
            /\ req'[s].response.type = "RateLimitExceeded"
            /\ req'[s].trace = <<"checkRateLimit">>
            /\ req'[s].detectedType = ""
            /\ req'[s].prompt = NoPrompt
            /\ req'[s].attempt = 0
            /\ req'[s].posts = <<>>]_vars

\* A request with valid requirements was rejected with 429.
C3_ValidRequestRejected ==
    \E s \in Slots :
        /\ req[s].response.status = 429
        /\ req[s].request.body.requirements = Str(Typical)
        /\ Len(rateLimitMap[Ip]) = limit

\* The requirements of the request are missing, not a string, too short or
\* too long.
RequirementsInvalid(body) ==
    \/ body.type = "undefined"
    \/ body.requirements.type # "string"
    \/ Len(body.requirements.str) < 10
    \/ Len(body.requirements.str) > 5000

\* C4: an admitted request whose requirements are missing, not a string,
\* shorter than 10 or longer than 5000 characters is answered with status
\* 400 (ValidationError) without a provider call; requirements of exactly 10
\* and exactly 5000 characters pass the check.
C4_InvalidRequirementsAnswered400 ==
    \A s \in Slots :
        (req[s].pc # "idle" /\ req[s].admitted) =>
            /\ RequirementsInvalid(req[s].request.body) =>
                   /\ req[s].pc = "done"
                   /\ req[s].response.status = 400
                   /\ req[s].response.type = "ValidationError"
                   /\ req[s].posts = <<>>
            /\ (/\ req[s].request.body.requirements.type = "string"
                /\ Len(req[s].request.body.requirements.str) \in {10, 5000}) =>
                   /\ req[s].response.status # 400
                   /\ Did(req[s], "generateContract")

\* For requests that carry a body the check of C4 does hold; the request
\* without a body is the one that is answered otherwise.
C4_HoldsForRequestsWithBody ==
    \A s \in Slots :
        (req[s].request.body.type = "object" /\ req[s].pc # "idle" /\ req[s].admitted) =>
                /\ RequirementsInvalid(req[s].request.body) =>
                       /\ req[s].pc = "done"
                       /\ req[s].response.status = 400
                       /\ req[s].response.type = "ValidationError"
                       /\ req[s].posts = <<>>
                /\ (/\ req[s].request.body.requirements.type = "string"
                    /\ Len(req[s].request.body.requirements.str) \in {10, 5000}) =>
                       /\ req[s].response.status # 400
                       /\ Did(req[s], "generateContract")

\* An admitted request without a body, answered with status 500.
C4_NoBodyAnswered500 ==
    \E s \in Slots :
        /\ req[s].admitted
        /\ req[s].request.body.type = "undefined"
        /\ req[s].response.status = 500
        /\ req[s].response.type = "TypeError"

\* C5: a success response is sent only when validateAndCleanContract has
\* returned without throwing on the text the provider gave for the same
\* request, and the contract in the response is the text it returned.
C5_SuccessOnlyAfterSanitizer ==
    \A s \in Slots :
        req[s].response.success =>
            /\ req[s].returned
            /\ req[s].settled # <<>>
            /\ req[s].result = req[s].settled[Len(req[s].settled)].content
            /\ req[s].trace[Len(req[s].trace)] = "validateAndCleanContract"
            /\ Cleaned(req[s].result).ok
            /\ req[s].response.contract = Cleaned(req[s].result).text

\* A success whose contract is not the text the provider sent.
C5_NoisyTextCleaned ==
    \E s \in Slots :
        /\ req[s].response.success
        /\ req[s].result = Str(NoisyText)
        /\ req[s].response.contract # NoisyText

\* C6: when every attempt fails, generateContract makes exactly maxRetries
\* (3) attempts and then throws the 'LLM generation failed after 3 attempts'
\* error; it returns no text.
C6_ExactlyMaxRetriesAttempts ==
    \A s \in Slots :
        /\ req[s].attempt <= maxRetries
        /\ Len(req[s].posts) <= maxRetries
        /\ (/\ req[s].pc = "done"
            /\ Did(req[s], "generateContract")
            /\ Len(req[s].failures) = req[s].attempt) =>
               /\ req[s].attempt = 3
               /\ req[s].provider \in {"openai", "anthropic"} => Len(req[s].posts) = 3
               /\ ~req[s].returned
               /\ req[s].result = Undefined
               /\ ~req[s].response.success
               /\ req[s].response.status = 500
               /\ StartsWith(req[s].response.details,
                             "LLM generation failed after 3 attempts: ")

\* Three provider calls, all failed, and the failure response sent.
C6_ThreeCallsAllFailed ==
    \E s \in Slots :
        /\ req[s].pc = "done"
        /\ Len(req[s].posts) = 3
        /\ Len(req[s].failures) = 3

\* C7: the wait after failed attempt k is 2^k seconds (2 after attempt 1, 4
\* after attempt 2), there is no wait after a successful attempt, and when
\* attempts 1 and 2 fail and attempt 3 succeeds generateContract returns the
\* text of attempt 3 after waits of 2 and 4 seconds, 6 in total.
C7_BackoffSchedule ==
    \A s \in Slots :
        /\ \A k \in 1..Len(req[s].waits) : req[s].waits[k] = (2 ^ k) * 1000
        /\ req[s].returned => Len(req[s].waits) = req[s].attempt - 1
        /\ (req[s].returned /\ req[s].attempt = 3) =>
               /\ Len(req[s].failures) = 2
               /\ req[s].result = req[s].settled[3].content
               /\ req[s].waits = <<2000, 4000>>
               /\ req[s].waits[1] + req[s].waits[2] = 6000

\* Two failures, then the text of the third attempt in a success response.
C7_ThirdAttemptSucceeds ==
    \E s \in Slots :
        /\ req[s].returned /\ req[s].attempt = 3
        /\ req[s].settled[1] = NetworkError
        /\ req[s].settled[3] = Answered("items", Str(CleanText))
        /\ req[s].response.success

\* C8: when the attempts are exhausted the error of generateContract carries
\* the message of the failure of attempt 3, and the failure response gives
\* that message to the caller in error.details.
C8_LastFailureMessageReported ==
    \A s \in Slots :
        (req[s].pc = "done" /\ Len(req[s].failures) = 3) =>
            /\ req[s].response.status = 500
            /\ req[s].response.details =
                   "LLM generation failed after 3 attempts: " \o req[s].failures[3]
            /\ Len(req[s].settled) = 3 =>
                   /\ req[s].settled[3].kind = "error" =>
                          req[s].failures[3] = req[s].settled[3].message
                   /\ (/\ req[s].settled[3].kind = "response"
                       /\ req[s].settled[3].list \in {"absent", "empty"}) =>
                          req[s].failures[3] = InvalidResponse(req[s].provider)

\* Three different failures in a row; the third is the timeout.
C8_ThreeDifferentFailures ==
    \E s \in Slots :
        /\ req[s].pc = "done"
        /\ req[s].settled = <<NetworkError, Answered("empty", Undefined), TimeoutError>>
        /\ req[s].response.details =
               "LLM generation failed after 3 attempts: timeout of 30000ms exceeded"

\* C9: a network error, a timeout (after 30 s) and a response without a
\* non-empty choices/content list each use up one attempt: the failure is
\* logged, nothing is returned as text, a backoff and a further attempt
\* follow while attempts remain, and only the third failure ends the call.
C9_EveryFailureKindRetried ==
    [][\A s \in Slots :
         /\ (/\ req[s].pc = "calling"
             /\ Len(req'[s].settled) = Len(req[s].settled) + 1
             /\ req'[s].settled[Len(req'[s].settled)] \in FailureOutcomes)
            => /\ Len(req'[s].failures) = Len(req[s].failures) + 1
               /\ req'[s].attempt = req[s].attempt
               /\ Len(req'[s].failures) = req'[s].attempt
               /\ ~req'[s].returned
               /\ ~req'[s].response.success
               /\ IF req[s].attempt < 3
                  THEN req'[s].pc = "waiting" /\ Len(req'[s].waits) = Len(req[s].waits) + 1
                  ELSE req'[s].pc = "done" /\ req'[s].response.status = 500
         /\ (/\ req[s].pc = "waiting"
             /\ req'[s].pc # "waiting"
             /\ req[s].provider \in {"openai", "anthropic"})
            => /\ req'[s].pc = "calling"
               /\ req'[s].attempt = req[s].attempt + 1
               /\ Len(req'[s].posts) = Len(req[s].posts) + 1
               /\ req'[s].posts[Len(req'[s].posts)].timeout = 30000]_vars

\* One failure of each kind, three attempts used.
C9_OneFailureOfEachKind ==
    \E s \in Slots :
        /\ req[s].settled = <<TimeoutError, NetworkError, Answered("absent", Undefined)>>
        /\ Len(req[s].failures) = 3
        /\ req[s].attempt = 3

\* The credential of the provider that LLM_PROVIDER selects is not set.
CredentialMissing(e) ==
    LET provider == OrElse(e.LLM_PROVIDER, Str("openai")).str IN
    \/ provider = "openai" /\ ~Truthy(e.OPENAI_API_KEY)
    \/ provider = "anthropic" /\ ~Truthy(e.ANTHROPIC_API_KEY)

\* C10: when the selected provider has no credential configured the request
\* fails with a ConfigurationError before any network attempt: no provider
\* call and no backoff wait happen for it.
C10_NoCallWithoutCredential ==
    \A s \in Slots :
        (CredentialMissing(env) /\ Did(req[s], "generateContract")) =>
            /\ req[s].posts = <<>>
            /\ req[s].waits = <<>>
            /\ req[s].pc = "done"
            /\ req[s].response.type = "ConfigurationError"

\* A provider call sent although the selected provider has no credential:
\* the Authorization header reads 'Bearer undefined', and the failures are
\* retried with the backoff.
C10_CalledWithBearerUndefined ==
    \E s \in Slots :
        /\ CredentialMissing(env)
        /\ Len(req[s].posts) = 3
        /\ req[s].posts[1].authorization = "Bearer undefined"
        /\ req[s].waits = <<2000, 4000>>

\* C11: a valid request whose explicit contractType is not one of the seven
\* supported categories is answered with a ValidationError (status 400), and
\* no prompt is composed and no provider call is made for it.
C11_UnsupportedCategoryRejected ==
    \A s \in Slots :
        (/\ req[s].pc # "idle"
         /\ req[s].admitted
         /\ req[s].request.body.type = "object"
         /\ ~RequirementsInvalid(req[s].request.body)
         /\ Truthy(req[s].request.body.contractType)
         /\ req[s].request.body.contractType.str \notin TypeNames) =>
            /\ req[s].pc = "done"
            /\ req[s].response.status = 400
            /\ req[s].response.type = "ValidationError"
            /\ req[s].prompt = NoPrompt
            /\ req[s].posts = <<>>

\* The category 'lottery' is taken as the detected type: the prompt is
\* composed with the block of 'custom' and the provider is called.
C11_UnsupportedCategoryPrompted ==
    \E s \in Slots :
        /\ req[s].request.body.contractType = Str("lottery")
        /\ req[s].detectedType = "lottery"
        /\ req[s].prompt.system.specific = "custom"
        /\ req[s].prompt.user.heading = "smart contract"
        /\ Len(req[s].posts) = 1
        /\ req[s].pc = "calling"

\* C12: when validateAndCleanContract finds no declaration keyword in the
\* provider text, the request ends with a failure response of type
\* ValidationError and the provider is not called again.
C12_NoKeywordIsValidationError ==
    \A s \in Slots :
        (/\ req[s].returned
         /\ Cleaned(req[s].result).error =
                "Generated code does not contain a valid Solidity contract") =>
            /\ req[s].pc = "done"
            /\ ~req[s].response.success
            /\ Len(req[s].posts) = Len(req[s].settled)
            /\ req[s].response.type = "ValidationError"

\* The provider answered with prose: status 500, type 'Error'.
C12_NoKeywordAnswered500 ==
    \E s \in Slots :
        /\ req[s].result = Str(ProseText)
        /\ req[s].pc = "done"
        /\ req[s].response.status = 500
        /\ req[s].response.type = "Error"
        /\ req[s].response.message = "Contract generation failed"
        /\ req[s].response.details =
               "Generated code does not contain a valid Solidity contract"
        /\ Len(req[s].posts) = 1

\* C13: every handler invocation, on every path, terminates by sending
\* exactly one response; every failure response is a structured object with a
\* message and a type; nothing is sent before the invocation ends.
C13_OneResponse(s) ==
    /\ req[s].pc \in {"idle", "calling", "waiting"} => req[s].sent = 0
    /\ req[s].pc = "done" =>
           /\ req[s].sent = 1
           /\ req[s].response.status \in {200, 400, 405, 429, 500}
           /\ req[s].response.status >= 400 =>
                  /\ req[s].response.json
                  /\ ~req[s].response.success
                  /\ req[s].response.message # ""
                  /\ req[s].response.type # ""

C13_ExactlyOneStructuredResponse ==
    /\ [](\A s \in Slots : C13_OneResponse(s))
    /\ \A s \in Slots :
           (req[s].pc \in {"calling", "waiting"}) ~> (req[s].pc = "done")

\* The provider failed three times and the invocation answered once.
C13_ProviderFailureAnsweredOnce ==
    \E s \in Slots :
        /\ req[s].pc = "done"
        /\ Len(req[s].failures) = maxRetries
        /\ req[s].sent = 1
        /\ req[s].response.status = 500
        /\ req[s].response.type = "Error"

\* C14: detectContractType returns the first category, in the declared
\* order, that has a keyword occurring in the lower-cased text, however many
\* later categories match; 'custom' when no keyword of any category occurs.
C14_Matching(text) ==
    {i \in 1..Len(contractTypes) :
        \E k \in 1..Len(contractTypes[i].keywords) :
            \E at \in 1..(Len(text) - Len(contractTypes[i].keywords[k]) + 1) :
                OccursAt(toLowerCase(text), contractTypes[i].keywords[k], at)}

C14_FirstMatchInDeclaredOrder ==
    (call.method = "detectContractType" /\ call.out # <<>>) =>
        LET matching == C14_Matching(call.arg) IN
        /\ [i \in 1..Len(contractTypes) |-> contractTypes[i].type] =
               <<"erc20", "erc721", "multisig", "crowdfunding", "defi",
                 "governance", "custom">>
        /\ matching = {} => call.out[1] = "custom"
        /\ matching # {} =>
               \E i \in matching :
                   /\ \A j \in matching : i <= j
                   /\ call.out[1] = contractTypes[i].type

\* A text with keywords of erc721 ('NFT') and of governance ('DAO'), in the
\* other order: erc721 is returned.
C14_EarlierCategoryWins ==
    /\ call.method = "detectContractType"
    /\ call.arg = "DAO NFT"
    /\ call.out = <<"erc721">>

\* C15: validateAndCleanContract is idempotent on its own output: applied to
\* a text it returned, it succeeds and returns the same text.
C15_Idempotent ==
    (call.method = "validateAndCleanContract" /\ Len(call.out) = 2) =>
        /\ call.out[2].ok
        /\ call.out[2].text = call.out[1].text

\* The pattern /^.*?implementation.*?:/gim removes one match per line, so
\* the second application removes the match the first one left.
C15_SecondPassRemovesMore ==
    /\ call.method = "validateAndCleanContract"
    /\ call.arg = "contract A {\n  // implementation: uses implementation: uint\n}"
    /\ Len(call.out) = 2
    /\ call.out[1].ok /\ call.out[2].ok
    /\ Includes(call.out[1].text, "\n uses implementation: uint\n")
    /\ Includes(call.out[2].text, "\n uint\n")
    /\ ~Includes(call.out[2].text, "implementation")

\* C16: every text validateAndCleanContract returns has a license header line
\* and a pragma line; when the cleaned text has no header exactly one default
\* header is prepended, when it has no pragma exactly one default pragma line
\* is put directly after the header line, and what is present is not added
\* a second time.
C16_Occurrences(text, k) ==
    Cardinality({i \in 1..(Len(text) - Len(k) + 1) : OccursAt(text, k, i)})

C16_LinesWith(lines, k) ==
    {i \in 1..Len(lines) : C16_Occurrences(lines[i], k) > 0}

C17_FailsExactlyWithoutKeyword ==
    (call.method = "validateAndCleanContract" /\ Len(call.out) >= 1) =>
        LET cleaned == EnsurePragma(EnsureLicense(ProcessedText(call.arg))) IN
        call.out[1].ok <=>
            \E keyword \in {"contract", "interface", "library"} :
                Includes(cleaned, keyword)

\* A declaration whose keyword is followed by a tab: the line loop takes it
\* as a declaration (\s+), the final test looks for 'contract ' and throws.
C17_DeclarationWithTabRejected ==
    /\ call.method = "validateAndCleanContract"
    /\ call.arg = "pragma solidity ^0.8.0;\ncontract\tA {\n}"
    /\ ProcessedText(call.arg) = call.arg
    /\ Len(call.out) = 1
    /\ ~call.out[1].ok
    /\ call.out[1].error = "Generated code does not contain a valid Solidity contract"

\* C19: brace depth is tracked from the first declaration line; the line on
\* which it returns to zero with a closing brace is the last line kept, and
\* every later line of the input is absent from the output.
RECURSIVE C19_Depth(_, _, _)
C19_Depth(lines, from, to) ==
    IF to < from THEN 0
    ELSE C19_Depth(lines, from, to - 1)
         + CountChar(lines[to], "{") - CountChar(lines[to], "}")

C19_Declarations(lines) ==
    {i \in 1..Len(lines) : IsDeclaration(Trim(lines[i]))}

C19_Closings(lines) ==
    {i \in 1..Len(lines) :
        /\ C19_Declarations(lines) # {}
        /\ i >= Min(C19_Declarations(lines))
        /\ C19_Depth(lines, Min(C19_Declarations(lines)), i) = 0
        /\ Includes(lines[i], "}")}

C19_NothingKeptAfterClosingLine ==
    (/\ call.method = "validateAndCleanContract"
     /\ Len(call.out) = 1
     /\ call.out[1].ok) =>
        LET lines == Split(call.arg, "\n") IN
        C19_Closings(lines) # {} =>
            LET closing == Min(C19_Closings(lines)) IN
            /\ EndsWith(call.out[1].text, Trim(lines[closing]))
            /\ call.out[1] =
                   validateAndCleanContract(Str(Join(SubSeq(lines, 1, closing), "\n")))

\* A comment line inside the contract starts with 'contract B': the depth is
\* set back to zero there, the closing brace of A takes it to -1, and the
\* commentary after the contract is kept.
C19_TrailingCommentaryKept ==
    /\ call.method = "validateAndCleanContract"
    /\ call.arg = "contract A {\n  /*\n  contract B is the old name\n  */\n  uint x;\n}\nDeploy it with Remix"
    /\ Len(call.out) = 1
    /\ call.out[1].ok
    /\ EndsWith(call.out[1].text, "  uint x;\n}\nDeploy it with Remix")

\* C18: a rejected checkRateLimit call adds no timestamp to the record of
\* the identity: the record after it is the record before it, less at most
\* timestamps older than the window; no other record changes.
C18_RejectionAddsNoTimestamp ==
    [][\A s \in Slots :
         (GovernorCall(s) /\ ~req'[s].admitted) =>
             LET ip == clientIp(req'[s].request)
                 before == rateLimitMap[ip]
                 after == rateLimitMap'[ip]
                 Fresh(time) == now - time < window
             IN  /\ SelectSeq(after, Fresh) = SelectSeq(before, Fresh)
                 /\ Len(after) <= Len(before)
                 /\ \A i \in 1..Len(after) : \E j \in 1..Len(before) : after[i] = before[j]
                 /\ \A other \in Identities \ {ip} :
                        rateLimitMap'[other] = rateLimitMap[other]]_vars

\* A call was rejected at a time that is not in the record of its identity,
\* which still holds ten timestamps.
C18_RejectedCallNotRecorded ==
    \E s \in Slots :
        /\ req[s].pc = "done"
        /\ req[s].request.method = "POST"
        /\ ~req[s].admitted
        /\ now > 0
        /\ Len(rateLimitMap[clientIp(req[s].request)]) = limit
        /\ \A i \in 1..limit : rateLimitMap[clientIp(req[s].request)][i] # now

\* C20: for each request at most one provider call is in flight and at most
\* maxRetries calls are made; a call is made only at the start or when the
\* call before it has failed and its backoff wait has ended, and never after
\* a success or the final failure.
C20_InFlight(s) == Len(req[s].posts) - Len(req[s].settled)

C20_BoundedCalls(s) ==
    /\ Len(req[s].posts) <= maxRetries
    /\ C20_InFlight(s) \in {0, 1}
    /\ C20_InFlight(s) = 1 <=> req[s].pc = "calling"
    /\ req[s].pc = "done" => C20_InFlight(s) = 0

C20_CallStarts(s) ==
    Len(req'[s].posts) > Len(req[s].posts) =>
        /\ Len(req'[s].posts) = Len(req[s].posts) + 1
        /\ req[s].pc \in {"idle", "waiting"}
        /\ ~req[s].returned
        /\ C20_InFlight(s) = 0
        /\ Len(req[s].waits) = Len(req[s].posts)
        /\ Len(req[s].failures) = Len(req[s].posts)
        /\ Len(req[s].failures) < maxRetries

C20_OneCallAtATimeAtMostThree ==
    /\ [](\A s \in Slots : C20_BoundedCalls(s))
    /\ [][\A s \in Slots : C20_CallStarts(s)]_vars

\* The third call is in flight: two calls failed and two waits ended.
C20_ThirdCallInFlight ==
    \E s \in Slots :
        /\ req[s].pc = "calling"
        /\ Len(req[s].posts) = 3
        /\ Len(req[s].settled) = 2
        /\ Len(req[s].failures) = 2
        /\ Len(req[s].waits) = 2

\* C21: all attempts of one generateContract call go to the backend that
\* LLM_PROVIDER selected when the service was constructed; a failure never
\* turns an attempt to the other backend.
C21_SelectedUrl ==
    IF env.LLM_PROVIDER = Str("anthropic")
    THEN "https://chat.cloudapi.vip/v1/messages"
    ELSE "https://chat.cloudapi.vip/v1/chat/completions"

C22_NoStaleTimestampAfterCall ==
    [][\A s \in Slots :
         GovernorCall(s) =>
             LET record == rateLimitMap'[clientIp(req'[s].request)] IN
             \A i \in 1..Len(record) : ~(now - record[i] > window)]_vars

\* A call made a full window after the start was rejected: the record holds
\* ten timestamps, none of them from the start.
C22_RejectedAfterAWindow ==
    \E s \in Slots :
        /\ req[s].pc = "done"
        /\ req[s].response.status = 429
        /\ now >= window
        /\ Len(rateLimitMap[clientIp(req[s].request)]) = limit
        /\ \A i \in 1..limit : rateLimitMap[clientIp(req[s].request)][i] > 0

\* A client that sends requests validation rejects, and any request once ten
\* of its requests lie in the window.
FloodRequests ==
    {r \in GovRequests :
        \/ RequirementsInvalid(r.body)
        \/ Len(InWindow(rateLimitMap[clientIp(r)], now)) >= limit}

NextFlood ==
    \/ \E s \in Slots : Start(s, FloodRequests)
    \/ \E s \in Slots : Close(s)
    \/ Tick

SpecFlood == InitGov /\ [][NextFlood]_vars

\* C24: the rate-limit check runs before validation: a request validation
\* rejects (status 400) has been recorded in the window of its identity, and
\* ten such requests inside one window make the next request of the
\* identity, valid or not, end with status 429.
C24_Recorded(s) ==
    (GovernorCall(s) /\ req'[s].response.status = 400) =>
        /\ req'[s].admitted
        /\ rateLimitMap'[clientIp(req'[s].request)] =
               Append(InWindow(rateLimitMap[clientIp(req'[s].request)], now), now)

C24_NextRejected(s) ==
    (/\ GovernorCall(s)
     /\ Len(InWindow(rateLimitMap[clientIp(req'[s].request)], now)) >= limit) =>
        req'[s].response.status = 429

C24_InvalidRequestsFillTheWindow ==
    /\ [][\A s \in Slots : C24_Recorded(s) /\ C24_NextRejected(s)]_vars
    /\ [](\A s \in Slots :
             (req[s].pc = "done" /\ ~RequirementsInvalid(req[s].request.body)) =>
                 req[s].response.status = 429)

\* Ten requests with requirements of nine characters, then a valid request
\* of the same identity: 429, nothing validated, no provider call.
C24_ValidRequestAfterTenInvalid ==
    \E s \in Slots :
        /\ req[s].pc = "done"
        /\ req[s].request.body.requirements = Str(Typical)
        /\ req[s].response.status = 429
        /\ ~Did(req[s], "validate")
        /\ req[s].posts = <<>>
        /\ Len(InWindow(rateLimitMap[Ip], now)) = limit

\* C25: rejected calls do not extend the lock-out of an identity: a call is
\* admitted as soon as the oldest recorded admission of the identity is a
\* full window old, however many calls were rejected in between.
C25_AdmittedOnceOldestIsAWindowOld ==
    [][\A s \in Slots :
         LET record == rateLimitMap[clientIp(req'[s].request)] IN
         (/\ GovernorCall(s)
          /\ record # <<>>
          /\ now - record[1] >= window) => req'[s].admitted]_vars

\* Slot r1 was rejected; a window after the admissions that caused it, slot
\* r2 is admitted and the record holds fewer than ten timestamps again.
C25_AdmittedAfterRejection ==
    /\ req["r1"].pc = "done"
    /\ req["r1"].response.status = 429
    /\ req["r2"].pc = "calling"
    /\ req["r2"].admitted
    /\ now >= window
    /\ Len(rateLimitMap[Ip]) < limit
    /\ rateLimitMap[Ip][Len(rateLimitMap[Ip])] = now

\* Two identities: one named by x-forwarded-for, one that reads 'unknown'
\* and stops calling when its record holds MaxOther timestamps.  Their
\* requests are ones validation rejects, so each invocation ends at once.
TwoRequests ==
    {Post(Body(Str("nft maker"), Undefined))}
    \cup (IF Len(rateLimitMap["unknown"]) < MaxOther
          THEN {[Post(Body(Str("nft maker"), Undefined)) EXCEPT !.xForwardedFor = Undefined]}
          ELSE {})

NextTwo == Start("r1", TwoRequests) \/ Close("r1") \/ Tick

SpecTwo == InitGov /\ [][NextTwo]_vars

\* C26: a checkRateLimit call for identity A leaves the record of every
\* other identity unchanged, and its result depends only on the record of A
\* and the current time.
C26_IdentitiesIndependent ==
    [][\A s \in Slots :
         GovernorCall(s) =>
             LET a == clientIp(req'[s].request)
                 inside == {i \in 1..Len(rateLimitMap[a]) :
                               now - rateLimitMap[a][i] < window}
             IN  /\ \A b \in Identities \ {a} : rateLimitMap'[b] = rateLimitMap[b]
                 /\ req'[s].admitted <=> Cardinality(inside) < limit]_vars

\* The identity of the x-forwarded-for header is rejected while the record
\* of 'unknown' holds three timestamps, and 'unknown' is admitted.
C26_OneRejectedOtherAdmitted ==
    /\ Len(rateLimitMap[Ip]) = limit
    /\ Len(rateLimitMap["unknown"]) = 3
    /\ req["r1"].pc = "done"
    /\ clientIp(req["r1"].request) = "unknown"
    /\ req["r1"].admitted
    /\ \A i \in 1..limit : now - rateLimitMap[Ip][i] < window

\* C27: validateAndCleanContract keeps at most one top-level declaration:
\* of several declarations in sequence the first is kept and every later
\* one is dropped.
C27_Declares(line) ==
    \/ IsDeclaration(Trim(line))
    \/ /\ StartsWith(Trim(line), "abstract ")
       /\ IsDeclaration(TrimStart(SubSeq(Trim(line), 10, Len(Trim(line)))))

C27_TopLevel(lines) ==
    {i \in 1..Len(lines) : C27_Declares(lines[i]) /\ C19_Depth(lines, 1, i - 1) = 0}

C27_AtMostOneDeclaration ==
    (/\ call.method = "validateAndCleanContract"
     /\ Len(call.out) = 1
     /\ call.out[1].ok) =>
        LET given == Split(call.arg, "\n")
            kept == Split(call.out[1].text, "\n")
        IN  /\ Cardinality(C27_TopLevel(kept)) <= 1
            /\ \A i \in C27_TopLevel(kept) :
                   C27_TopLevel(given) # {} /\
                   Trim(kept[i]) = Trim(given[Min(C27_TopLevel(given))])

\* An abstract contract and the contract that inherits from it: the loop
\* does not take 'abstract contract A {' for a declaration, and both are
\* kept.
C27_AbstractAndContractKept ==
    /\ call.method = "validateAndCleanContract"
    /\ call.arg = "pragma solidity ^0.8.0;\nabstract contract A {\n}\ncontract B is A {\n}"
    /\ Len(call.out) = 1
    /\ call.out[1].text =
           "// SPDX-License-Identifier: MIT\npragma solidity ^0.8.0;\nabstract contract A {\n}\ncontract B is A {\n}"

\* C28: when LLM_PROVIDER names neither backend, generateContract makes no
\* network call, and the failure is retried like any other: three attempts,
\* with waits of 2 and 4 seconds in between, before the call fails.
C28_UnsupportedProviderRetried ==
    \A s \in Slots :
        (env.LLM_PROVIDER = Str("gemini") /\ Did(req[s], "generateContract")) =>
            /\ req[s].posts = <<>>
            /\ req[s].pc \in {"waiting", "done"}
            /\ \A i \in 1..Len(req[s].failures) :
                   req[s].failures[i] = "Unsupported LLM provider: gemini"
            /\ req[s].pc = "waiting" =>
                   /\ Len(req[s].failures) \in {1, 2}
                   /\ Len(req[s].waits) = Len(req[s].failures)
            /\ req[s].pc = "done" =>
                   /\ Len(req[s].failures) = 3
                   /\ req[s].waits = <<2 * 1000, 4 * 1000>>
                   /\ req[s].response.status = 500
                   /\ req[s].response.details =
                          "LLM generation failed after 3 attempts: Unsupported LLM provider: gemini"

\* The request has failed after three attempts and two waits, without a call.
C28_FailedAfterThreeAttemptsWithoutCall ==
    \E s \in Slots :
        /\ env.LLM_PROVIDER = Str("gemini")
        /\ req[s].pc = "done"
        /\ Len(req[s].failures) = 3
        /\ Len(req[s].waits) = 2
        /\ req[s].posts = <<>>
        /\ req[s].settled = <<>>

\* C23: isUserAuthenticated returns true only if a stored record exists
\* whose timestamp is less than 24 hours before now; once logout() has run
\* it returns false until authenticate() next succeeds.
C23_TrueOnlyForFreshRecord ==
    [][(browser'.op \in {"isUserAuthenticated", "reload"} /\ now' = now) =>
           /\ browser'.result =>
                  /\ browser.items["web3AuthData"].kind = "json"
                  /\ now - browser.items["web3AuthData"].timestamp < 24 * 60 * 60 * 1000
           /\ browser.loggedOut => ~browser'.result]_vars

\* A day after authenticate() succeeded and with logout() run since, the
\* check has returned false.
C23_FalseAfterLogout ==
    /\ browser.open
    /\ browser.op = "isUserAuthenticated"
    /\ browser.loggedOut
    /\ ~browser.result
    /\ ~browser.isAuthenticated
    /\ now > 0

\* C29: HistoryManager keeps 1 <= currentPage in every reachable state, and
\* currentPage <= getTotalPages() whenever the history is not empty, after
\* any sequence of setPage, setItemsPerPage and addItem calls.
C29_CurrentPageInRange ==
    browser.open =>
        /\ 1 <= browser.currentPage
        /\ browser.totalItems > 0 => browser.currentPage <= getTotalPages(browser)

\* setPage(1) on an empty history: maxPage is 0 and currentPage becomes 0.
C29_PageZeroOnEmptyHistory ==
    /\ browser.open
    /\ browser.op = "setPage"
    /\ browser.totalItems = 0
    /\ browser.data = <<>>
    /\ browser.currentPage = 0

\* C30: the record stored under 'web3AuthData' is created or changed only by
\* authenticate() and removed only by logout(); no HistoryManager call
\* changes it, and it never appears as a history entry.
C30_AuthRecordOnlyByWeb3Auth ==
    /\ [][browser'.items["web3AuthData"] # browser.items["web3AuthData"] =>
              IF browser'.items["web3AuthData"].kind = "absent"
              THEN browser'.op \in {"logout", "isUserAuthenticated", "reload"}
              ELSE browser'.op = "authenticate returns"]_vars
    /\ [](browser.open =>
              \A i \in 1..Len(browser.data) : browser.data[i].message # "web3AuthData")

\* addItem with the query text 'web3AuthData' has replaced the record of an
\* authenticated user with the text of a contract.
C30_AddItemOverwritesAuthRecord ==
    /\ browser.open
    /\ browser.op = "addItem"
    /\ browser.isAuthenticated
    /\ browser.items["web3AuthData"].kind = "text"
    /\ browser.data = <<>>

=============================================================================
